---- MODULE Spec2Model ----
(***************************************************************************)
(* Model of the violation-report bot: the conversation controller          *)
(* (handlers/voice.py, handlers/base.py), the violation analyzer           *)
(* (services/ai_service.py) and the interaction logger                     *)
(* (services/logger.py).                                                   *)
(*                                                                         *)
(* Python strings are sequences of tokens.  A token is one character       *)
(* (" " stands for any whitespace character, "x" and "y" for ordinary      *)
(* characters, "," for a comma), one of the three section labels of the    *)
(* model reply (matched case-insensitively by the code, so one token per   *)
(* label), the bold marker "**", or one fixed sentence of the code.        *)
(* Fixed Russian sentences are written in English, SANY accepts ASCII only.*)
(***************************************************************************)
EXTENDS Integers, Sequences, FiniteSets, TLC

\* ------------------------------------------------------------------ bounds
MaxReplyLen == 4
MaxAIChunks == 2
MaxLogChunks == 4
MaxLogOps == 3
MaxTurns == 2
MaxUsers == 1
MaxResults == 2
MaxTranscriptLen == 3
MaxActivations == 2

\* --------------------------------------------------------- program constants
\* logger.py:114-115, the truncation length of a logged fragment text
TruncLen == 200
\* logger.py:112 and 124, the number of fragment slots
ChunkSlots == 3

\* ------------------------------------------------------------------ strings
None == <<"<None>">>

SP == " "
LabelDescription == "Corrected description:"
LabelDocument == "Normative document:"
LabelSuggestions == "Suggested remediation:"
Bold == "**"

IsSpace(c) == c = SP

RECURSIVE LStrip(_)
LStrip(s) == IF s # <<>> /\ IsSpace(Head(s)) THEN LStrip(Tail(s)) ELSE s

RECURSIVE RStrip(_)
RStrip(s) ==
    IF s # <<>> /\ IsSpace(s[Len(s)]) THEN RStrip(SubSeq(s, 1, Len(s) - 1)) ELSE s

\* str.strip()
Strip(s) == LStrip(RStrip(s))

\* the index of the first tok in s at or after from, 0 when there is none
FirstIndex(s, tok, from) ==
    IF \E i \in from..Len(s) : s[i] = tok
    THEN CHOOSE i \in from..Len(s) :
            s[i] = tok /\ \A j \in from..(i - 1) : s[j] # tok
    ELSE 0

\* the position after the whitespace run that starts at p (greedy \s*)
SkipSpaces(s, p) ==
    CHOOSE q \in p..(Len(s) + 1) :
        /\ \A j \in p..(q - 1) : IsSpace(s[j])
        /\ (q = Len(s) + 1 \/ ~IsSpace(s[q]))

\* the lookahead (?=\s*term|$) at position q
LookaheadAt(s, q, term) ==
    \/ q = Len(s) + 1
    \/ LET k == SkipSpaces(s, q) IN k <= Len(s) /\ s[k] = term

\* re.search(label \s* (.*?) (?=\s*term|$), s, DOTALL | IGNORECASE): the
\* leftmost label, greedy whitespace, then the shortest group whose end
\* satisfies the lookahead.  ($ also matches before a final newline; the
\* group is stripped by every caller, so that case gives the same result.)
SearchSection(s, label, term) ==
    LET i == FirstIndex(s, label, 1) IN
    IF i = 0 THEN [matched |-> FALSE, group |-> <<>>]
    ELSE LET p == SkipSpaces(s, i + 1)
             q == CHOOSE e \in p..(Len(s) + 1) :
                    /\ LookaheadAt(s, e, term)
                    /\ \A j \in p..(e - 1) : ~LookaheadAt(s, j, term)
         IN [matched |-> TRUE, group |-> SubSeq(s, p, q - 1)]

\* group(1).strip(), then the duplicated leading label removed
SectionBody(s, label, term) ==
    LET m == SearchSection(s, label, term) IN
    IF ~m.matched THEN <<>>
    ELSE LET body == Strip(m.group) IN
         IF body # <<>> /\ body[1] = label THEN Strip(Tail(body)) ELSE body

\* ------------------------------------------------------------ models/violation.py
\* RAGChunk: relevance_score is held in thousandths
RAGChunk(id, title, number, clause, text, score) ==
    [document_id |-> id, document_title |-> title, document_number |-> number,
     clause_number |-> clause, clause_text |-> text, relevance_score |-> score]

ViolationResponse(description, document, suggestions, success, error) ==
    [corrected_description |-> description, document_info |-> document,
     suggestions |-> suggestions, success |-> success, error_message |-> error]

\* Violation (models/violation.py), timestamp set at construction
Violation(text, description, title, number, clause, suggestions, chunks, error, ts) ==
    [original_text |-> text, corrected_description |-> description,
     document_title |-> title, document_number |-> number,
     clause_number |-> clause, suggestions |-> suggestions,
     chunks |-> chunks, error |-> error, timestamp |-> ts]

\* ------------------------------------------------------- services/ai_service.py
AnalysisErrorText == "Violation analysis error"
NoDocumentText == "Could not determine the normative document"
RepeatText == "Try to repeat the violation description"
FurtherAnalysisText == "Further analysis is required to determine remediation"
NoDocsFoundText == "No relevant normative documents found."
OpenAIErrorPrefix == "Error getting a response from OpenAI: "
NoneTypeStripError == "'NoneType' object has no attribute 'strip'"

\* _format_rag_context: one block per fragment, numbered from 1
RagContextPart(i, chunk) ==
    <<"\nDocument ", ToString(i), ":\n- Title: ">> \o chunk.document_title
        \o <<"\n- Number: ">> \o chunk.document_number
        \o <<"\n- Clause: ">> \o chunk.clause_number
        \o <<"\n- Text: ">> \o chunk.clause_text
        \o <<"\n- Relevance: ", ToString(chunk.relevance_score), "\n">>

RECURSIVE JoinParts(_, _)
JoinParts(parts, sep) ==
    IF parts = <<>> THEN <<>>
    ELSE IF Len(parts) = 1 THEN parts[1]
    ELSE parts[1] \o sep \o JoinParts(Tail(parts), sep)

format_rag_context(chunks) ==
    IF chunks = <<>> THEN <<NoDocsFoundText>>
    ELSE JoinParts([i \in 1..Len(chunks) |-> RagContextPart(i, chunks[i])], <<"\n">>)

\* _create_analysis_prompt: the fixed instructions, the text and the context
create_analysis_prompt(original_text, context) ==
    <<"PromptHead">> \o original_text \o <<"\nRAG context:\n">> \o context \o <<"\n">>

\* The generation provider's answer to one call: a completion with text
\* content, a completion whose content is None, or an exception.
ProviderText(content) == [kind |-> "text", content |-> content]
ProviderNoContent == [kind |-> "none", content |-> <<>>]
ProviderRaises(msg) == [kind |-> "raise", content |-> msg]

\* a variant that treats an empty completion as a failure
get_openai_response_rejects_empty(outcome) ==
    IF outcome.kind = "text" /\ Strip(outcome.content) # <<>>
    THEN [ok |-> TRUE, value |-> Strip(outcome.content)]
    ELSE IF outcome.kind = "raise"
    THEN [ok |-> FALSE, value |-> <<OpenAIErrorPrefix>> \o outcome.content]
    ELSE [ok |-> FALSE, value |-> <<OpenAIErrorPrefix, NoneTypeStripError>>]

\* _get_openai_response: the content stripped, or any failure wrapped
get_openai_response(outcome) ==
    IF outcome.kind = "text"
    THEN [ok |-> TRUE, value |-> Strip(outcome.content)]
    ELSE IF outcome.kind = "none"
    THEN [ok |-> FALSE, value |-> <<OpenAIErrorPrefix, NoneTypeStripError>>]
    ELSE [ok |-> FALSE, value |-> <<OpenAIErrorPrefix>> \o outcome.content]

\* f"{title}, {number}, {clause}" of one fragment
CitationOf(chunk) ==
    chunk.document_title \o <<",", SP>> \o chunk.document_number
        \o <<",", SP>> \o chunk.clause_number

\* a variant that keeps the description empty when nothing parsed
FallbackDescription_dropped(description, document, suggestions, response) ==
    description

\* lines 171-174: nothing parsed, the whole reply is the description
FallbackDescription(description, document, suggestions, response) ==
    IF description = <<>> /\ document = <<>> /\ suggestions = <<>>
    THEN response ELSE description

\* a variant that prefers the top fragment to the model's citation
FallbackDocument_overwrites(document, chunks) ==
    IF chunks # <<>> THEN CitationOf(chunks[1]) ELSE document

\* lines 176-179: no citation parsed, the top fragment gives one
FallbackDocument(document, chunks) ==
    IF document = <<>> /\ chunks # <<>> THEN CitationOf(chunks[1]) ELSE document

\* lines 181-182
FallbackSuggestions(suggestions) ==
    IF suggestions = <<>> THEN <<FurtherAnalysisText>> ELSE suggestions

\* _parse_ai_response, lines 132-189.  No statement of its try block raises
\* for a str reply and a list of RAGChunk, so its handler is not reached.
parse_ai_response(response, chunks) ==
    LET description == SectionBody(response, LabelDescription, LabelDocument)
        document == SectionBody(response, LabelDocument, LabelSuggestions)
        suggestions == SectionBody(response, LabelSuggestions, Bold)
    IN ViolationResponse(
           FallbackDescription(description, document, suggestions, response),
           FallbackDocument(document, chunks),
           FallbackSuggestions(suggestions),
           TRUE, None)

\* the fixed result of analyze_violation's handler, lines 40-47
AnalysisFailure(error) ==
    ViolationResponse(<<AnalysisErrorText>>, <<NoDocumentText>>, <<RepeatText>>,
                      FALSE, error)

\* a variant without the handler: the provider's failure leaves the call
analyze_violation_uncaught(original_text, chunks, outcome) ==
    LET context == format_rag_context(chunks)
        prompt == create_analysis_prompt(original_text, context)
        response == get_openai_response(outcome)
    IN [raised |-> ~response.ok,
        value |-> IF response.ok
                  THEN parse_ai_response(response.value, chunks)
                  ELSE AnalysisFailure(response.value),
        provider_calls |-> 1,
        prompt |-> prompt]

\* analyze_violation: [raised, value, provider_calls, prompt]; raised says
\* that an exception left the call, provider_calls counts the invocations of
\* chat.completions.create
analyze_violation(original_text, chunks, outcome) ==
    LET context == format_rag_context(chunks)
        prompt == create_analysis_prompt(original_text, context)
        response == get_openai_response(outcome)
    IN [raised |-> FALSE,
        value |-> IF response.ok
                  THEN parse_ai_response(response.value, chunks)
                  ELSE AnalysisFailure(response.value),
        provider_calls |-> 1,
        prompt |-> prompt]

\* --------------------------------------------------------- services/logger.py
Ellipsis == "..."
ChunkSeparator == "\n\n====================\n\n"

Min(a, b) == IF a < b THEN a ELSE b

\* dict.get(key, default)
Get(d, key, default) == IF key \in DOMAIN d THEN d[key] ELSE default

\* a variant that also cuts a text of exactly the limit
TruncateText_at_limit(text) ==
    IF Len(text) >= TruncLen THEN SubSeq(text, 1, TruncLen) \o <<Ellipsis>> ELSE text

\* lines 113-115: the fragment text, cut to 200 characters plus "..."
TruncateText(text) ==
    IF Len(text) > TruncLen THEN SubSeq(text, 1, TruncLen) \o <<Ellipsis>> ELSE text

\* lines 116-120: one rendered fragment
RenderChunk(idx, chunk) ==
    <<"Chunk ", ToString(idx), ":\nDocument: ">>
        \o Get(chunk, "document_title", <<>>) \o <<SP>>
        \o Get(chunk, "document_number", <<>>) \o <<",", SP, "p.">>
        \o Get(chunk, "clause_number", <<>>) \o <<"\nText: ">>
        \o TruncateText(Get(chunk, "clause_text", <<>>))

\* a variant without the padding loop
format_chunks_unpadded(chunks) ==
    [i \in 1..Min(Len(chunks), ChunkSlots) |-> RenderChunk(i, chunks[i])]

\* _format_chunks: the first 3 fragments rendered, padded with "" to 3 slots
format_chunks(chunks) ==
    LET formatted == [i \in 1..Min(Len(chunks), ChunkSlots) |-> RenderChunk(i, chunks[i])]
    IN formatted \o [i \in 1..(ChunkSlots - Len(formatted)) |-> <<>>]

\* a variant that keeps the empty slots in the joined block
NonEmpty_keeps_blank(parts) == parts

\* the non-empty elements of a list, in order
RECURSIVE NonEmpty(_)
NonEmpty(parts) ==
    IF parts = <<>> THEN <<>>
    ELSE IF Head(parts) = <<>> THEN NonEmpty(Tail(parts))
    ELSE <<Head(parts)>> \o NonEmpty(Tail(parts))

\* violation.timestamp.strftime("%Y-%m-%d %H:%M:%S"), the clock reading as text
FormatTimestamp(ts) == <<ToString(ts)>>

\* a variant with the layout of tests/test_logger.py: no user field, the
\* record's error text in the last column
format_violation_data_with_error(violation, response_text, model_name) ==
    LET chunks_text == format_chunks(violation.chunks)
        joined_chunks == JoinParts(NonEmpty(chunks_text), <<ChunkSeparator>>)
    IN << FormatTimestamp(violation.timestamp), violation.original_text,
          response_text, joined_chunks, model_name,
          IF violation.error = None THEN <<>> ELSE violation.error >>

\* _format_violation_data: the row of one violation
format_violation_data(violation, response_text, model_name) ==
    LET chunks_text == format_chunks(violation.chunks)
        joined_chunks == JoinParts(NonEmpty(chunks_text), <<ChunkSeparator>>)
    IN << FormatTimestamp(violation.timestamp), <<>>, violation.original_text,
          response_text, joined_chunks, model_name >>

\* The steps of a logger call that go to the spreadsheet provider, in the
\* order of the code; a call's environment names the step that fails, if any.
LogFailPoints == {"none", "authorize", "open", "worksheet", "append"}
ProbeFailPoints == {"none", "authorize", "open", "worksheet", "read"}

\* LoggerService.__init__: no client manager yet, nothing written by it
NewLoggerService == [client |-> "None", managers |-> 0, authorizations |-> 0, sheet |-> <<>>]

\* a variant that builds a new manager on every call
get_client_recreates(service, fail) ==
    [ok |-> fail # "authorize",
     service |-> [service EXCEPT
                    !.client = "manager",
                    !.managers = @ + 1,
                    !.authorizations = @ + 1]]

\* _get_client: the manager is created when absent, then authorize() is called
get_client(service, fail) ==
    [ok |-> fail # "authorize",
     service |-> [service EXCEPT
                    !.client = "manager",
                    !.managers = @ + (IF service.client = "None" THEN 1 ELSE 0),
                    !.authorizations = @ + 1]]

\* a variant without the handler: a failing step leaves the call
log_violation_uncaught(service, violation, response_text, model_name, fail) ==
    LET got == get_client(service, fail)
        row == format_violation_data(violation, response_text, model_name)
    IN IF fail = "none"
       THEN [ret |-> TRUE, raised |-> FALSE,
             service |-> [got.service EXCEPT !.sheet = Append(@, row)]]
       ELSE [ret |-> FALSE, raised |-> TRUE, service |-> got.service]

\* log_violation: client, spreadsheet, worksheet, row, append_row; any
\* failure is printed and gives False
log_violation(service, violation, response_text, model_name, fail) ==
    LET got == get_client(service, fail)
        row == format_violation_data(violation, response_text, model_name)
    IN IF fail = "none"
       THEN [ret |-> TRUE, raised |-> FALSE,
             service |-> [got.service EXCEPT !.sheet = Append(@, row)]]
       ELSE [ret |-> FALSE, raised |-> FALSE, service |-> got.service]

\* the user identifier of a call without one (user_id = None)
NoUser == -1

UserErrorPrefix == "Error of user "
SystemErrorText == "System error"

\* a variant that names the user for every identifier that is not None
ErrorRow_names_zero(error_message, user_id, now) ==
    << FormatTimestamp(now),
       IF user_id # NoUser
       THEN <<UserErrorPrefix, ToString(user_id)>> ELSE <<SystemErrorText>>,
       <<>>, <<>>, <<>>, <<>>, <<>>, <<>>,
       error_message >>

\* lines 147-158: the row of one error; now is datetime.now()
ErrorRow(error_message, user_id, now) ==
    << FormatTimestamp(now),
       IF user_id # NoUser /\ user_id # 0
       THEN <<UserErrorPrefix, ToString(user_id)>> ELSE <<SystemErrorText>>,
       <<>>, <<>>, <<>>, <<>>, <<>>, <<>>,
       error_message >>

\* log_error
log_error(service, error_message, user_id, now, fail) ==
    LET got == get_client(service, fail) IN
    IF fail = "none"
    THEN [ret |-> TRUE, raised |-> FALSE,
          service |-> [got.service EXCEPT
                         !.sheet = Append(@, ErrorRow(error_message, user_id, now))]]
    ELSE [ret |-> FALSE, raised |-> FALSE, service |-> got.service]

\* test_connection: the header row is read, nothing is written
test_connection(service, fail) ==
    LET got == get_client(service, fail) IN
    [ret |-> fail = "none", raised |-> FALSE, service |-> got.service]

\* ---------------------------------------------------- services/rag_service.py
\* a dict without keys
EmptyDict == [k \in {} |-> <<>>]

\* The index's answer to collection.query: an exception, or the result lists
\* of the one query text (results['ids'][0], ['metadatas'][0], ...).  An entry
\* of metadatas or documents is absent (None) when the stored item has none;
\* distances are held in thousandths.
IndexRaises == [kind |-> "raise", ids |-> <<>>, metadatas |-> <<>>,
                documents |-> <<>>, distances |-> <<>>]
IndexResults(ids, metadatas, documents, distances) ==
    [kind |-> "results", ids |-> ids, metadatas |-> metadatas,
     documents |-> documents, distances |-> distances]

\* a metadata entry: None, or a dict
NoMetadata == [none |-> TRUE, dict |-> EmptyDict]
Metadata(dict) == [none |-> FALSE, dict |-> dict]

\* lines 73-76: the i-th metadata, document and distance, with the defaults
\* taken when the result has no such list
MetadataAt(results, i) ==
    IF results.metadatas # <<>> THEN results.metadatas[i] ELSE Metadata(EmptyDict)
DocumentAt(results, i) ==
    IF results.documents # <<>> THEN results.documents[i] ELSE <<>>
DistanceAt(results, i) ==
    IF results.distances # <<>> THEN results.distances[i] ELSE 0

\* line 85: relevance_score = 1.0 - distance, in thousandths
RelevanceScore(distance) == 1000 - distance

\* lines 78-86 raise for the i-th result: metadata.get on None, or the
\* validation of RAGChunk(clause_text=None)
BuildRaises(results, i) ==
    \/ MetadataAt(results, i).none
    \/ DocumentAt(results, i) = None

\* lines 78-86: the fragment of the i-th result
BuildChunk(results, i) ==
    LET metadata == MetadataAt(results, i).dict IN
    RAGChunk(results.ids[i],
             Get(metadata, "document_title", <<>>),
             Get(metadata, "document_number", <<>>),
             Get(metadata, "clause_number", <<>>),
             DocumentAt(results, i),
             RelevanceScore(DistanceAt(results, i)))

\* a variant without the handler: a failure leaves the call
search_relevant_chunks_uncaught(query, results) ==
    IF results.kind = "raise" \/ \E i \in 1..Len(results.ids) : BuildRaises(results, i)
    THEN [raised |-> TRUE, value |-> <<>>, queries |-> 1]
    ELSE [raised |-> FALSE,
          value |-> [i \in 1..Len(results.ids) |-> BuildChunk(results, i)],
          queries |-> 1]

\* search_relevant_chunks: [raised, value, queries]; one query of the index,
\* one fragment per identifier, any exception gives []
search_relevant_chunks(query, results) ==
    IF results.kind = "raise" \/ \E i \in 1..Len(results.ids) : BuildRaises(results, i)
    THEN [raised |-> FALSE, value |-> <<>>, queries |-> 1]
    ELSE [raised |-> FALSE,
          value |-> [i \in 1..Len(results.ids) |-> BuildChunk(results, i)],
          queries |-> 1]

\* ------------------------------------------------ services/voice_processor.py
DownloadFailedText == "Could not download the voice message"
NotRecognizedText == "Could not recognize speech in the voice message"
VoiceErrorPrefix == "Voice message processing error: "

\* The environment of one call: whether bot.get_file and bot.download_file
\* succeed, the transcription provider's answer (a text, or a failure) and
\* whether os.unlink succeeds.
VoiceEnv(download_ok, transcription, unlink_ok) ==
    [download_ok |-> download_ok, transcription |-> transcription,
     unlink_ok |-> unlink_ok]
TranscriptionText(text) == [kind |-> "text", text |-> text]
TranscriptionRaises == [kind |-> "raise", text |-> <<>>]

\* _download_voice: the temporary file is created first; a failure of the
\* Telegram calls is printed and gives None, the file stays
download_voice(env) ==
    [file |-> IF env.download_ok THEN <<"tmp.ogg">> ELSE None, created |-> 1]

\* _transcribe_audio: response.text, or None on any failure
transcribe_audio(env) ==
    IF env.transcription.kind = "text" THEN env.transcription.text ELSE None

\* a variant that accepts a blank transcription
process_voice_message_accepts_blank(env) ==
    LET voice_file == download_voice(env).file
        text == transcribe_audio(env)
    IN IF voice_file = None
       THEN [raised |-> FALSE, success |-> FALSE, text |-> None,
             error |-> <<DownloadFailedText>>, transcriptions |-> 0,
             created |-> 1, deleted |-> 0]
       ELSE IF ~env.unlink_ok
       THEN [raised |-> FALSE, success |-> FALSE, text |-> None,
             error |-> <<VoiceErrorPrefix, "unlink failed">>, transcriptions |-> 1,
             created |-> 1, deleted |-> 0]
       ELSE IF text = None
       THEN [raised |-> FALSE, success |-> FALSE, text |-> None,
             error |-> <<NotRecognizedText>>, transcriptions |-> 1,
             created |-> 1, deleted |-> 1]
       ELSE [raised |-> FALSE, success |-> TRUE, text |-> Strip(text),
             error |-> None, transcriptions |-> 1, created |-> 1, deleted |-> 1]

\* process_voice_message: [raised, success, text, error] with the numbers of
\* transcription calls, of temporary files created and of files deleted
process_voice_message(env) ==
    LET voice_file == download_voice(env).file
        text == transcribe_audio(env)
    IN IF voice_file = None
       THEN [raised |-> FALSE, success |-> FALSE, text |-> None,
             error |-> <<DownloadFailedText>>, transcriptions |-> 0,
             created |-> 1, deleted |-> 0]
       ELSE IF ~env.unlink_ok
       THEN [raised |-> FALSE, success |-> FALSE, text |-> None,
             error |-> <<VoiceErrorPrefix, "unlink failed">>, transcriptions |-> 1,
             created |-> 1, deleted |-> 0]
       ELSE IF text = None \/ text = <<>> \/ Strip(text) = <<>>
       THEN [raised |-> FALSE, success |-> FALSE, text |-> None,
             error |-> <<NotRecognizedText>>, transcriptions |-> 1,
             created |-> 1, deleted |-> 1]
       ELSE [raised |-> FALSE, success |-> TRUE, text |-> Strip(text),
             error |-> None, transcriptions |-> 1, created |-> 1, deleted |-> 1]

\* ------------------------------------------------------- utils/validators.py
MinTextLength == 5
MaxTextLength == 1000
DefaultMaxVoiceDuration == 60

\* validate_voice_message(voice), called with max_duration at its default
validate_voice_message(duration, max_duration) ==
    ~(duration > max_duration) /\ ~(duration < 1)

\* validate_text_input(text) with the default bounds
validate_text_input(text) ==
    /\ text # <<>>
    /\ Strip(text) # <<>>
    /\ ~(Len(Strip(text)) < MinTextLength)
    /\ ~(Len(Strip(text)) > MaxTextLength)

\* ------------------------------------------------------------ handlers/voice.py
\* _format_response
format_response(ai_response, original_text) ==
    IF ~ai_response.success
    THEN <<"Analysis failed. Source text: ">> \o original_text
            \o <<" Error: ">> \o ai_response.error_message \o <<" Try again.">>
    ELSE <<"Analysis done. Source text: ">> \o original_text
            \o <<" Corrected description: ">> \o ai_response.corrected_description
            \o <<" Normative document: ">> \o ai_response.document_info
            \o <<" Remediation: ">> \o ai_response.suggestions
            \o <<" Press the button for a new violation">>

\* str.split(",", maxsplit)
RECURSIVE SplitComma(_, _)
SplitComma(s, maxsplit) ==
    LET i == FirstIndex(s, ",", 1) IN
    IF maxsplit = 0 \/ i = 0 THEN <<s>>
    ELSE <<SubSeq(s, 1, i - 1)>> \o SplitComma(SubSeq(s, i + 1, Len(s)), maxsplit - 1)

\* a variant that logs the record without the retrieved fragments
BuildViolation_without_chunks(text, ai_response, rag_chunks, now) ==
    Violation(text, ai_response.corrected_description, None, None, None,
              ai_response.suggestions, <<>>,
              IF ~ai_response.success THEN ai_response.error_message ELSE None,
              now)

\* lines 96-115 and 185-204: the Violation built from the analysis
BuildViolation(text, ai_response, rag_chunks, now) ==
    LET parsed == ai_response.success /\ ai_response.document_info # <<>>
        split == SplitComma(ai_response.document_info, 2)
        parts == [i \in 1..Len(split) |-> Strip(split[i])]
    IN Violation(text, ai_response.corrected_description,
                 IF parsed THEN parts[1] ELSE None,
                 IF parsed /\ Len(parts) > 1 THEN parts[2] ELSE None,
                 IF parsed /\ Len(parts) > 2 THEN parts[3] ELSE None,
                 ai_response.suggestions, rag_chunks,
                 IF ~ai_response.success THEN ai_response.error_message ELSE None,
                 now)

\* ------------------------------------------------------------------ state
VARIABLES
    aiIn,       \* analyzer: the arguments and the provider's answer of the call
    aiOut,      \* analyzer: <<>> before the call, <<result>> after it
    fmtIn,      \* row formatting: the violation, response text and model name
    fmtSlots,   \* row formatting: <<>>, or <<the result of _format_chunks>>
    fmtRow,     \* row formatting: <<>>, or <<the result of _format_violation_data>>
    logger_service, \* the LoggerService: _client, and the sheet it writes to
    logLast,    \* logger: <<>>, or <<the last call: op, fail, ret, raised, before>>
    fsm,        \* controller: the FSM storage, each user's conversation state
    turns,      \* controller: each handler task, its position and locals
    settings,   \* config.py: the settings object read from the environment
    activations, \* controller: per user, the number of set_state calls so far
    ragIn,      \* retriever: the query and the index's answer of the call
    ragOut,     \* retriever: <<>> before the call, <<result>> after it
    vpIn,       \* transcriber: the environment of the call
    vpOut       \* transcriber: <<>> before the call, <<result>> after it

vars == <<aiIn, aiOut, fmtIn, fmtSlots, fmtRow, logger_service, logLast, fsm, turns,
          settings, activations, ragIn, ragOut, vpIn, vpOut>>
ctlVars == <<fsm, turns, settings, activations>>
ragVars == <<ragIn, ragOut>>
vpVars == <<vpIn, vpOut>>
logVars == <<logger_service, logLast>>
aiVars == <<aiIn, aiOut>>
fmtVars == <<fmtIn, fmtSlots, fmtRow>>

\* --------------------------------------------------------- analyzer inputs
Seqs(S, n) == UNION {[1..k -> S] : k \in 0..n}

ReplyAlphabet == {"x", SP, LabelDescription, LabelDocument, LabelSuggestions, Bold}
Replies == Seqs(ReplyAlphabet, MaxReplyLen)

AIFragmentPool ==
    { RAGChunk("1", <<"x">>, <<"y">>, <<"x", "y">>, <<"x">>, 950),
      RAGChunk("2", <<>>, <<>>, <<>>, <<"y">>, 850),
      RAGChunk("3", <<"x", ",", "y">>, <<"y">>, <<"x">>, <<"y", "y">>, 700) }

\* a reply in the format the prompt asks for, lines 84-87: each label in
\* bold markers, one section per line
PromptFormatReply(description, document, suggestions) ==
    <<Bold, LabelDescription, Bold, SP>> \o description
        \o <<SP, Bold, LabelDocument, Bold, SP>> \o document
        \o <<SP, Bold, LabelSuggestions, Bold, SP>> \o suggestions

SectionBodies == {<<"x">>, <<"x", SP, "x">>}

PromptFormatReplies ==
    { PromptFormatReply(d, n, m) : d \in SectionBodies, n \in SectionBodies,
                                   m \in SectionBodies }

ProviderOutcomes ==
    {ProviderText(r) : r \in Replies \cup PromptFormatReplies} \cup {ProviderNoContent}
        \cup {ProviderRaises(m) : m \in {<<>>, <<"API Error">>}}

AnalyzeInputs ==
    [original_text : {<<"x", "x", "x", "x", "x">>},
     chunks : Seqs(AIFragmentPool, MaxAIChunks),
     outcome : ProviderOutcomes]

AIIdle == CHOOSE i \in AnalyzeInputs : i.chunks = <<>> /\ i.outcome = ProviderNoContent

\* a text of n characters whose last character differs from the others
TextOfLen(n) == [i \in 1..n |-> IF i = n THEN "y" ELSE "x"]

\* ------------------------------------------------------- controller inputs
Users == 1..MaxUsers
TurnIds == 1..MaxTurns

TelegramErrorText == "Telegram server says - Bad Request"

\* a handler task that has not been dispatched
IdleTurn ==
    [pc |-> "idle", kind |-> "none", user |-> 0, duration |-> 0, text |-> <<>>,
     early |-> "none", rag_chunks |-> <<>>, ai_response |-> <<>>, exc |-> None,
     cleared |-> FALSE, sent |-> <<>>, calls |-> <<>>, error_logged |-> <<>>,
     epoch |-> 0, failed |-> <<>>, retrieved |-> <<>>, analyzed |-> <<>>,
     logged |-> <<>>, response_text |-> <<>>]

VoiceDurations == {0, DefaultMaxVoiceDuration, DefaultMaxVoiceDuration + 1}
TextMessages == {TextOfLen(MinTextLength - 1), <<SP>> \o TextOfLen(MinTextLength + 1)}

\* the environments of process_voice_message: the download fails, the
\* transcription provider fails, it returns a valid text, a too short text
CtlVoiceEnvs ==
    { VoiceEnv(FALSE, TranscriptionRaises, TRUE),
      VoiceEnv(TRUE, TranscriptionRaises, TRUE),
      VoiceEnv(TRUE, TranscriptionText(TextOfLen(MinTextLength)), TRUE),
      VoiceEnv(TRUE, TranscriptionText(TextOfLen(MinTextLength - 1)), TRUE) }

\* the index's answers: a failure, no results, one result
CtlIndexOutcomes ==
    { IndexRaises,
      IndexResults(<<>>, <<>>, <<>>, <<>>),
      IndexResults(<<"1">>,
                   << Metadata([document_title |-> <<"x">>, document_number |-> <<"y">>,
                                clause_number |-> <<"x", "y">>]) >>,
                   << <<"x">> >>, <<50>>) }

CtlProviderOutcomes ==
    { ProviderText(<<LabelDescription, "x">>), ProviderRaises(<<"API Error">>) }

CtlLogFails == {"none", "append"}

\* ---------------------------------------------------- row formatting inputs
\* fragment dicts: a short text, a text of exactly the limit, a text one over
\* the limit, and a dict that has only an identifier
LogChunkPool ==
    { RAGChunk("1", <<"x">>, <<"x", "x">>, <<"x">>, <<"x", "y">>, 950),
      RAGChunk("2", <<"y">>, <<"x", "y">>, <<"y">>, TextOfLen(TruncLen), 850),
      RAGChunk("3", <<"x", "y">>, <<"y", "y">>, <<"x", "x">>, TextOfLen(TruncLen + 1), 700),
      [document_id |-> "4"] }

FormatInputs ==
    [violation : { Violation(<<"x", "x", "x", "x", "y">>, <<"x">>, None, None, None,
                             <<"y">>, cs, e, 1)
                   : cs \in Seqs(LogChunkPool, MaxLogChunks), e \in {None, <<"e">>} },
     response_text : {<<"x", "y", "x">>},
     model_name : {<<"gpt-4o">>}]

FmtIdle == CHOOSE i \in FormatInputs : i.violation.chunks = <<>> /\ i.violation.error = None

\* -------------------------------------------------------- retriever inputs
\* stored metadata: none at all, an empty dict, a title only, all three fields
StoredMetadata ==
    { NoMetadata, Metadata(EmptyDict),
      Metadata([document_title |-> <<"x">>]),
      Metadata([document_title |-> <<"x">>, document_number |-> <<"y">>,
                clause_number |-> <<"x", "y">>, keywords |-> <<"y">>]) }

StoredDocuments == {<<"x", "y">>, None}

\* distances in thousandths; the collection is created with the default
\* metric, the squared Euclidean distance, which has no upper limit
Distances == {0, 400, 1500}

IndexOutcomes ==
    {IndexRaises} \cup
    UNION { { IndexResults([i \in 1..n |-> ToString(i)], m, d, x)
              : m \in [1..n -> StoredMetadata], d \in [1..n -> StoredDocuments],
                x \in [1..n -> Distances] }
            : n \in 0..MaxResults }

SearchInputs == [query : {TextOfLen(MinTextLength)}, results : IndexOutcomes]

RagIdle == [query |-> TextOfLen(MinTextLength), results |-> IndexRaises]

\* ------------------------------------------------------ transcriber inputs
Transcripts == Seqs({"x", SP}, MaxTranscriptLen)

VoiceEnvs ==
    { VoiceEnv(d, t, u) :
        d \in BOOLEAN, u \in BOOLEAN,
        t \in {TranscriptionRaises} \cup {TranscriptionText(x) : x \in Transcripts} }

VpIdle == VoiceEnv(FALSE, TranscriptionRaises, TRUE)

\* --------------------------------------------------------- settings inputs
\* Settings.max_voice_duration, 60 unless the environment sets it
DefaultSettings == [max_voice_duration |-> DefaultMaxVoiceDuration]

SettingsChoices ==
    { [max_voice_duration |-> m]
      : m \in {DefaultMaxVoiceDuration, DefaultMaxVoiceDuration + 1} }

\* ------------------------------------------------ specification: retriever
InitSearch ==
    /\ ragIn \in SearchInputs
    /\ ragOut = <<>>
    /\ vpIn = VpIdle
    /\ vpOut = <<>>
    /\ settings = DefaultSettings
    /\ activations = [u \in Users |-> 0]
    /\ aiIn = AIIdle
    /\ aiOut = <<>>
    /\ fmtIn = FmtIdle
    /\ fmtSlots = <<>>
    /\ fmtRow = <<>>
    /\ logger_service = NewLoggerService
    /\ logLast = <<>>
    /\ fsm = [u \in Users |-> "Idle"]
    /\ turns = [t \in TurnIds |-> IdleTurn]

SearchRelevantChunks ==
    /\ ragOut = <<>>
    /\ ragOut' = <<search_relevant_chunks(ragIn.query, ragIn.results)>>
    /\ UNCHANGED <<ragIn, vpVars, aiVars, fmtVars, logVars, ctlVars>>

NextSearch == SearchRelevantChunks

SpecSearch == InitSearch /\ [][NextSearch]_vars

\* ---------------------------------------------- specification: transcriber
InitVoice ==
    /\ vpIn \in VoiceEnvs
    /\ vpOut = <<>>
    /\ ragIn = RagIdle
    /\ ragOut = <<>>
    /\ settings = DefaultSettings
    /\ activations = [u \in Users |-> 0]
    /\ aiIn = AIIdle
    /\ aiOut = <<>>
    /\ fmtIn = FmtIdle
    /\ fmtSlots = <<>>
    /\ fmtRow = <<>>
    /\ logger_service = NewLoggerService
    /\ logLast = <<>>
    /\ fsm = [u \in Users |-> "Idle"]
    /\ turns = [t \in TurnIds |-> IdleTurn]

ProcessVoiceMessage ==
    /\ vpOut = <<>>
    /\ vpOut' = <<process_voice_message(vpIn)>>
    /\ UNCHANGED <<vpIn, ragVars, aiVars, fmtVars, logVars, ctlVars>>

NextVoice == ProcessVoiceMessage

SpecVoice == InitVoice /\ [][NextVoice]_vars

\* ------------------------------------------- specification: row formatting
InitFormat ==
    /\ fmtIn \in FormatInputs
    /\ fmtSlots = <<>>
    /\ fmtRow = <<>>
    /\ aiIn = AIIdle
    /\ aiOut = <<>>
    /\ logger_service = NewLoggerService
    /\ logLast = <<>>
    /\ fsm = [u \in Users |-> "Idle"]
    /\ settings = DefaultSettings
    /\ activations = [u \in Users |-> 0]
    /\ ragIn = RagIdle
    /\ ragOut = <<>>
    /\ vpIn = VpIdle
    /\ vpOut = <<>>
    /\ turns = [t \in TurnIds |-> IdleTurn]

FormatChunks ==
    /\ fmtSlots = <<>>
    /\ fmtSlots' = <<format_chunks(fmtIn.violation.chunks)>>
    /\ UNCHANGED <<fmtIn, fmtRow, aiVars, logVars, ctlVars, ragVars, vpVars>>

FormatViolationData ==
    /\ fmtRow = <<>>
    /\ fmtRow' = <<format_violation_data(fmtIn.violation, fmtIn.response_text,
                                         fmtIn.model_name)>>
    /\ UNCHANGED <<fmtIn, fmtSlots, aiVars, logVars, ctlVars, ragVars, vpVars>>

NextFormat == FormatChunks \/ FormatViolationData

SpecFormat == InitFormat /\ [][NextFormat]_vars

\* --------------------------------------------------- specification: logger
LoggerViolations ==
    { Violation(<<"x", "x", "x", "x", "y">>, <<"x">>, None, None, None, <<"y">>,
                cs, None, 1)
      : cs \in { <<>>,
                 <<RAGChunk("1", <<"x">>, <<"x", "x">>, <<"x">>, <<"x", "y">>, 950),
                   [document_id |-> "4"]>> } }

LoggerUserIds == {NoUser, 0, 7}

InitLogger ==
    /\ logger_service = NewLoggerService
    /\ logLast = <<>>
    /\ fsm = [u \in Users |-> "Idle"]
    /\ settings = DefaultSettings
    /\ activations = [u \in Users |-> 0]
    /\ ragIn = RagIdle
    /\ ragOut = <<>>
    /\ vpIn = VpIdle
    /\ vpOut = <<>>
    /\ turns = [t \in TurnIds |-> IdleTurn]
    /\ aiIn = AIIdle
    /\ aiOut = <<>>
    /\ fmtIn = FmtIdle
    /\ fmtSlots = <<>>
    /\ fmtRow = <<>>

LoggerCalls == logger_service.authorizations

LogViolation ==
    /\ LoggerCalls < MaxLogOps
    /\ \E v \in LoggerViolations, fail \in LogFailPoints :
        LET r == log_violation(logger_service, v, <<"x", "y", "x">>, <<"gpt-4o">>, fail) IN
        /\ logger_service' = r.service
        /\ logLast' = <<[op |-> "log_violation", fail |-> fail, ret |-> r.ret,
                         raised |-> r.raised, before |-> logger_service.sheet]>>
    /\ UNCHANGED <<aiVars, fmtVars, ctlVars, ragVars, vpVars>>

LogError ==
    /\ LoggerCalls < MaxLogOps
    /\ \E uid \in LoggerUserIds, fail \in LogFailPoints :
        LET r == log_error(logger_service, <<"e">>, uid, 2, fail) IN
        /\ logger_service' = r.service
        /\ logLast' = <<[op |-> "log_error", fail |-> fail, ret |-> r.ret,
                         raised |-> r.raised, before |-> logger_service.sheet,
                         error_message |-> <<"e">>, user_id |-> uid, now |-> 2]>>
    /\ UNCHANGED <<aiVars, fmtVars, ctlVars, ragVars, vpVars>>

TestConnection ==
    /\ LoggerCalls < MaxLogOps
    /\ \E fail \in ProbeFailPoints :
        LET r == test_connection(logger_service, fail) IN
        /\ logger_service' = r.service
        /\ logLast' = <<[op |-> "test_connection", fail |-> fail, ret |-> r.ret,
                         raised |-> r.raised, before |-> logger_service.sheet]>>
    /\ UNCHANGED <<aiVars, fmtVars, ctlVars, ragVars, vpVars>>

NextLogger == LogViolation \/ LogError \/ TestConnection

SpecLogger == InitLogger /\ [][NextLogger]_vars

\* ------------------------------------------------- specification: analyzer
InitAnalyze ==
    /\ aiIn \in AnalyzeInputs
    /\ aiOut = <<>>
    /\ fmtIn = FmtIdle
    /\ fmtSlots = <<>>
    /\ fmtRow = <<>>
    /\ logger_service = NewLoggerService
    /\ logLast = <<>>
    /\ fsm = [u \in Users |-> "Idle"]
    /\ settings = DefaultSettings
    /\ activations = [u \in Users |-> 0]
    /\ ragIn = RagIdle
    /\ ragOut = <<>>
    /\ vpIn = VpIdle
    /\ vpOut = <<>>
    /\ turns = [t \in TurnIds |-> IdleTurn]

AnalyzeViolation ==
    /\ aiOut = <<>>
    /\ aiOut' = <<analyze_violation(aiIn.original_text, aiIn.chunks, aiIn.outcome)>>
    /\ UNCHANGED <<aiIn, fmtVars, logVars, ctlVars, ragVars, vpVars>>

\* voice.py lines 96-115 and 185-204: the controller builds the Violation
\* from the analysis and the fragments it passed to the analyzer
BuildViolationRecord ==
    /\ Len(aiOut) = 1
    /\ ~aiOut[1].raised
    /\ aiOut' = Append(aiOut, BuildViolation(aiIn.original_text, aiOut[1].value,
                                             aiIn.chunks, 1))
    /\ UNCHANGED <<aiIn, fmtVars, logVars, ctlVars, ragVars, vpVars>>

NextAnalyze == AnalyzeViolation \/ BuildViolationRecord

SpecAnalyze == InitAnalyze /\ [][NextAnalyze]_vars

\* ----------------------------------------------- specification: controller
Init ==
    /\ fsm = [u \in Users |-> "Idle"]
    /\ settings \in SettingsChoices
    /\ activations = [u \in Users |-> 0]
    /\ ragIn = RagIdle
    /\ ragOut = <<>>
    /\ vpIn = VpIdle
    /\ vpOut = <<>>
    /\ turns = [t \in TurnIds |-> IdleTurn]
    /\ logger_service = NewLoggerService
    /\ logLast = <<>>
    /\ aiIn = AIIdle
    /\ aiOut = <<>>
    /\ fmtIn = FmtIdle
    /\ fmtSlots = <<>>
    /\ fmtRow = <<>>

\* state.set_state(ViolationStates.waiting_for_voice) and state.clear()
SetWaiting(u) ==
    /\ fsm' = [fsm EXCEPT ![u] = "AwaitingInput"]
    /\ activations' = [activations EXCEPT ![u] = @ + 1]
Clear(u) == fsm' = [fsm EXCEPT ![u] = "Idle"]

\* a variant without the state filter
Accepts_any_state(u) == TRUE

\* the filter ViolationStates.waiting_for_voice of the three handlers
Accepts(u) == fsm[u] = "AwaitingInput"

\* the next free task
NextTurn(t) ==
    /\ turns[t].pc = "idle"
    /\ \A o \in TurnIds : o < t => turns[o].pc # "idle"

Upd(t, turn) == turns' = [turns EXCEPT ![t] = turn]
Sent(turn, what) == [turn EXCEPT !.sent = Append(@, what)]
Called(turn, what) == [turn EXCEPT !.calls = Append(@, what)]

\* an exception raised inside the try block: control goes to the handler
\* at lines 146 / 234
Caught(turn, e) == [turn EXCEPT !.pc = "exc_answer", !.exc = e]

\* an exception raised outside the try block, or inside its handler
Escapes(turn) == [turn EXCEPT !.pc = "raised"]

\* state.clear() followed by the return of the handler
ClearedAndDone(turn) == [turn EXCEPT !.pc = "done", !.cleared = TRUE]

\* base.py start_command: the photo is sent, then the state is set
StartCommand(u) ==
    /\ activations[u] < MaxActivations
    /\ \E sent_ok \in BOOLEAN :
        IF sent_ok THEN SetWaiting(u) ELSE UNCHANGED <<fsm, activations>>
    /\ UNCHANGED <<turns, logVars, aiVars, fmtVars, settings, ragVars, vpVars>>

\* base.py new_violation_callback: the callback is answered, the state is
\* set, then the instructions are sent
NewViolationCallback(u) ==
    /\ activations[u] < MaxActivations
    /\ \E answered \in BOOLEAN :
        IF answered THEN SetWaiting(u) ELSE UNCHANGED <<fsm, activations>>
    /\ UNCHANGED <<turns, logVars, aiVars, fmtVars, settings, ragVars, vpVars>>

\* base.py help_command
HelpCommand(u) ==
    /\ UNCHANGED vars

\* a message that no handler accepts: the state filter of every message
\* handler fails while the conversation is Idle, the update is dropped
UnhandledMessage(u) ==
    /\ ~Accepts(u)
    /\ UNCHANGED vars

\* handle_voice_message up to its first await, lines 45-60
ReceiveVoice(t, u) ==
    /\ NextTurn(t)
    /\ Accepts(u)
    /\ \E d \in VoiceDurations :
        Upd(t, [IdleTurn EXCEPT
                  !.kind = "voice", !.user = u, !.duration = d,
                  !.epoch = activations[u],
                  !.pc = IF validate_voice_message(d, DefaultMaxVoiceDuration)
                         THEN "processing_answer" ELSE "reject_answer"])
    /\ UNCHANGED <<fsm, logVars, aiVars, fmtVars, settings, activations, ragVars, vpVars>>

\* handle_text_message up to its first await, lines 160-175
ReceiveText(t, u) ==
    /\ NextTurn(t)
    /\ Accepts(u)
    /\ \E raw \in TextMessages :
        Upd(t, [IdleTurn EXCEPT
                  !.kind = "text", !.user = u, !.text = Strip(raw),
                  !.epoch = activations[u],
                  !.pc = IF validate_text_input(Strip(raw))
                         THEN "processing_answer" ELSE "reject_answer"])
    /\ UNCHANGED <<fsm, logVars, aiVars, fmtVars, settings, activations, ragVars, vpVars>>

\* handle_other_message up to its await, line 248
ReceiveOther(t, u) ==
    /\ NextTurn(t)
    /\ Accepts(u)
    /\ Upd(t, [IdleTurn EXCEPT !.kind = "other", !.user = u, !.pc = "reject_answer",
                                !.epoch = activations[u]])
    /\ UNCHANGED <<fsm, logVars, aiVars, fmtVars, settings, activations, ragVars, vpVars>>

\* lines 52-57, 167-172, 248-252: the rejection is sent, the state cleared
RejectAnswer(t) ==
    /\ turns[t].pc = "reject_answer"
    /\ \E sent_ok \in BOOLEAN :
        IF sent_ok
        THEN /\ Upd(t, ClearedAndDone(Sent(turns[t], "reject")))
             /\ Clear(turns[t].user)
        ELSE /\ Upd(t, Escapes(turns[t]))
             /\ UNCHANGED fsm
    /\ UNCHANGED <<logVars, aiVars, fmtVars, settings, activations, ragVars, vpVars>>

\* lines 60 and 175: the processing message, sent before the try block
ProcessingAnswer(t) ==
    /\ turns[t].pc = "processing_answer"
    /\ \E sent_ok \in BOOLEAN :
        IF sent_ok
        THEN Upd(t, [Sent(turns[t], "processing") EXCEPT
                       !.pc = IF turns[t].kind = "voice" THEN "transcribe" ELSE "search"])
        ELSE Upd(t, Escapes(turns[t]))
    /\ UNCHANGED <<fsm, logVars, aiVars, fmtVars, settings, activations, ragVars, vpVars>>

\* a variant that goes on to the retrieval after a failed transcription
Transcribe_continues(t) ==
    /\ turns[t].pc = "transcribe"
    /\ \E env \in CtlVoiceEnvs :
        LET r == process_voice_message(env) IN
        Upd(t, [Called(turns[t], "transcribe") EXCEPT
                  !.text = IF r.success THEN r.text ELSE TextOfLen(MinTextLength),
                  !.pc = "edit_text"])
    /\ UNCHANGED <<fsm, logVars, aiVars, fmtVars, settings, activations, ragVars, vpVars>>

\* lines 64-87: process_voice_message returns, the text is validated
Transcribe(t) ==
    /\ turns[t].pc = "transcribe"
    /\ \E env \in CtlVoiceEnvs :
        LET r == process_voice_message(env) IN
        Upd(t, [Called(turns[t], "transcribe") EXCEPT
                  !.text = r.text,
                  !.failed = IF ~env.download_ok THEN Append(@, "download")
                             ELSE IF env.transcription.kind = "raise"
                             THEN Append(@, "transcribe") ELSE @,
                  !.early = IF ~r.success THEN "transcription"
                            ELSE IF ~validate_text_input(r.text) THEN "text"
                            ELSE "none",
                  !.pc = IF r.success /\ validate_text_input(r.text)
                         THEN "edit_text" ELSE "early_delete"])
    /\ UNCHANGED <<fsm, logVars, aiVars, fmtVars, settings, activations, ragVars, vpVars>>

\* lines 67 and 78: processing_msg.delete() before an early return
EarlyDelete(t) ==
    /\ turns[t].pc = "early_delete"
    /\ \E deleted \in BOOLEAN :
        IF deleted
        THEN Upd(t, [turns[t] EXCEPT !.pc = "early_answer"])
        ELSE Upd(t, Caught(turns[t], <<TelegramErrorText>>))
    /\ UNCHANGED <<fsm, logVars, aiVars, fmtVars, settings, activations, ragVars, vpVars>>

\* lines 68-73 and 79-84: the early failure message, then state.clear()
EarlyAnswer(t) ==
    /\ turns[t].pc = "early_answer"
    /\ \E sent_ok \in BOOLEAN :
        IF sent_ok
        THEN /\ Upd(t, ClearedAndDone(Sent(turns[t], "early")))
             /\ Clear(turns[t].user)
        ELSE /\ Upd(t, Caught(turns[t], <<TelegramErrorText>>))
             /\ UNCHANGED fsm
    /\ UNCHANGED <<logVars, aiVars, fmtVars, settings, activations, ragVars, vpVars>>

\* line 87: processing_msg.edit_text
EditText(t) ==
    /\ turns[t].pc = "edit_text"
    /\ \E edited \in BOOLEAN :
        IF edited
        THEN Upd(t, [turns[t] EXCEPT !.pc = "search"])
        ELSE Upd(t, Caught(turns[t], <<TelegramErrorText>>))
    /\ UNCHANGED <<fsm, logVars, aiVars, fmtVars, settings, activations, ragVars, vpVars>>

\* lines 90 and 179: search_relevant_chunks returns
Search(t) ==
    /\ turns[t].pc = "search"
    /\ \E results \in CtlIndexOutcomes :
        LET r == search_relevant_chunks(turns[t].text, results) IN
        IF r.raised
        THEN Upd(t, Caught(Called(turns[t], "search"), <<"search_relevant_chunks raised">>))
        ELSE Upd(t, [Called(turns[t], "search") EXCEPT
                       !.rag_chunks = r.value,
                       !.retrieved = <<[query |-> turns[t].text, chunks |-> r.value]>>,
                       !.failed = IF results.kind = "raise" THEN Append(@, "search") ELSE @,
                       !.pc = "analyze"])
    /\ UNCHANGED <<fsm, logVars, aiVars, fmtVars, settings, activations, ragVars, vpVars>>

\* a variant that repeats the call after a failure of the provider
Analyze_retries(t) ==
    /\ turns[t].pc = "analyze"
    /\ \E outcome \in CtlProviderOutcomes :
        LET r == analyze_violation(turns[t].text, turns[t].rag_chunks, outcome) IN
        IF outcome.kind # "text" /\ Len(turns[t].calls) < 4
        THEN Upd(t, Called(turns[t], "generate"))
        ELSE Upd(t, [Called(turns[t], "generate") EXCEPT
                       !.ai_response = <<r.value>>,
                       !.analyzed = <<[text |-> turns[t].text, chunks |-> turns[t].rag_chunks]>>,
                       !.pc = "log_violation"])
    /\ UNCHANGED <<fsm, logVars, aiVars, fmtVars, settings, activations, ragVars, vpVars>>

\* lines 94 and 183: analyze_violation returns
Analyze(t) ==
    /\ turns[t].pc = "analyze"
    /\ \E outcome \in CtlProviderOutcomes :
        LET r == analyze_violation(turns[t].text, turns[t].rag_chunks, outcome) IN
        IF r.raised
        THEN Upd(t, Caught(Called(turns[t], "generate"), <<"analyze_violation raised">>))
        ELSE Upd(t, [Called(turns[t], "generate") EXCEPT
                       !.ai_response = <<r.value>>,
                       !.analyzed = <<[text |-> turns[t].text, chunks |-> turns[t].rag_chunks]>>,
                       !.failed = IF outcome.kind # "text" THEN Append(@, "generate") ELSE @,
                       !.pc = "log_violation"])
    /\ UNCHANGED <<fsm, logVars, aiVars, fmtVars, settings, activations, ragVars, vpVars>>

\* lines 96-128 and 185-217: the Violation and the response text are built
\* and log_violation returns
LogViolationStep(t) ==
    /\ turns[t].pc = "log_violation"
    /\ \E fail \in CtlLogFails :
        LET ai_response == turns[t].ai_response[1]
            violation == BuildViolation(turns[t].text, ai_response, turns[t].rag_chunks, t)
            response_text == format_response(ai_response, turns[t].text)
            r == log_violation(logger_service, violation, response_text, <<"gpt-4o">>, fail)
        IN /\ logger_service' = r.service
           /\ IF r.raised
              THEN Upd(t, Caught(Called(turns[t], "log_violation"), <<"log_violation raised">>))
              ELSE Upd(t, [Called(turns[t], "log_violation") EXCEPT
                             !.logged = <<violation>>,
                             !.response_text = response_text,
                             !.pc = "result_answer"])
    /\ UNCHANGED <<fsm, logLast, aiVars, fmtVars, settings, activations, ragVars, vpVars>>

\* lines 131-144 and 220-232: processing_msg.delete() with its failure
\* ignored, the response is sent, then state.clear()
ResultAnswer(t) ==
    /\ turns[t].pc = "result_answer"
    /\ \E sent_ok \in BOOLEAN :
        IF sent_ok
        THEN /\ Upd(t, ClearedAndDone(Sent(turns[t], "result")))
             /\ Clear(turns[t].user)
        ELSE /\ Upd(t, Caught(turns[t], <<TelegramErrorText>>))
             /\ UNCHANGED fsm
    /\ UNCHANGED <<logVars, aiVars, fmtVars, settings, activations, ragVars, vpVars>>

\* lines 146-155 and 234-243: processing_msg.delete() with its failure
\* ignored, the failure message is sent, then state.clear()
ExcAnswer(t) ==
    /\ turns[t].pc = "exc_answer"
    /\ \E sent_ok \in BOOLEAN :
        IF sent_ok
        THEN /\ Upd(t, [Sent(turns[t], "failure") EXCEPT !.pc = "log_error", !.cleared = TRUE])
             /\ Clear(turns[t].user)
        ELSE /\ Upd(t, Escapes(turns[t]))
             /\ UNCHANGED fsm
    /\ UNCHANGED <<logVars, aiVars, fmtVars, settings, activations, ragVars, vpVars>>

\* lines 158 and 244: log_error(str(e), message.from_user.id) returns
LogErrorStep(t) ==
    /\ turns[t].pc = "log_error"
    /\ \E fail \in CtlLogFails :
        LET r == log_error(logger_service, turns[t].exc, turns[t].user, t, fail) IN
        /\ logger_service' = r.service
        /\ Upd(t, [Called(turns[t], "log_error") EXCEPT
                     !.pc = IF r.raised THEN "raised" ELSE "done",
                     !.error_logged = Append(@, <<turns[t].exc, turns[t].user>>)])
    /\ UNCHANGED <<fsm, logLast, aiVars, fmtVars, settings, activations, ragVars, vpVars>>

Next ==
    \/ \E u \in Users : StartCommand(u)
    \/ \E u \in Users : NewViolationCallback(u)
    \/ \E u \in Users : HelpCommand(u)
    \/ \E u \in Users : UnhandledMessage(u)
    \/ \E t \in TurnIds, u \in Users : ReceiveVoice(t, u)
    \/ \E t \in TurnIds, u \in Users : ReceiveText(t, u)
    \/ \E t \in TurnIds, u \in Users : ReceiveOther(t, u)
    \/ \E t \in TurnIds : RejectAnswer(t)
    \/ \E t \in TurnIds : ProcessingAnswer(t)
    \/ \E t \in TurnIds : Transcribe(t)
    \/ \E t \in TurnIds : EarlyDelete(t)
    \/ \E t \in TurnIds : EarlyAnswer(t)
    \/ \E t \in TurnIds : EditText(t)
    \/ \E t \in TurnIds : Search(t)
    \/ \E t \in TurnIds : Analyze(t)
    \/ \E t \in TurnIds : LogViolationStep(t)
    \/ \E t \in TurnIds : ResultAnswer(t)
    \/ \E t \in TurnIds : ExcAnswer(t)
    \/ \E t \in TurnIds : LogErrorStep(t)

Spec == Init /\ [][Next]_vars

\* ---------------------------------------------------- claims: controller
Finished(t) == turns[t].pc \in {"done", "raised"}
HasSent(t, what) == \E i \in 1..Len(turns[t].sent) : turns[t].sent[i] = what

\* C1: every turn accepted while the conversation is AwaitingInput (voice,
\* text, other input) has cleared the conversation state to Idle when it
\* ends, whichever exit it takes, a failing send of the response or of the
\* failure message included.
C1_TurnEndsIdle ==
    \A t \in TurnIds : Finished(t) => turns[t].cleared

\* C2: no exception leaves a voice or text turn: whatever fails, the handler
\* returns normally.
C2_NoExceptionEscapes ==
    \A t \in TurnIds :
        turns[t].kind \in {"voice", "text"} => turns[t].pc # "raised"

\* C3: a voice or text turn in which an exception was raised inside the
\* pipeline has, when it ends, emitted the failure message, called log_error
\* exactly once with the exception text and the sender's identifier, and
\* cleared the state.
C3_ExceptionHandled ==
    \A t \in TurnIds :
        (Finished(t) /\ turns[t].exc # None) =>
            /\ HasSent(t, "failure")
            /\ turns[t].error_logged = << <<turns[t].exc, turns[t].user>> >>
            /\ turns[t].cleared

\* a voice turn right after the duration gate of lines 47-57
AtVoiceGate(t) ==
    turns[t].kind = "voice" /\ turns[t].pc \in {"reject_answer", "processing_answer"}

\* C18: a voice note is rejected before any transcription call when its
\* duration is 0 or negative or exceeds settings.max_voice_duration, and is
\* accepted when it is between 1 and settings.max_voice_duration inclusive.
C18_VoiceGateUsesSettings ==
    \A t \in TurnIds :
        AtVoiceGate(t) =>
            IF turns[t].duration >= 1 /\ turns[t].duration <= settings.max_voice_duration
            THEN turns[t].pc = "processing_answer"
            ELSE turns[t].pc = "reject_answer" /\ turns[t].calls = <<>>

\* the validation gate of a turn failed: the duration of a voice note, the
\* length of a text message, or the length of a transcribed text
GateFailed(t) ==
    \/ /\ turns[t].kind = "voice"
       /\ turns[t].duration < 1 \/ turns[t].duration > DefaultMaxVoiceDuration
    \/ /\ turns[t].kind = "text"
       /\ Len(turns[t].text) < 5 \/ Len(turns[t].text) > 1000
    \/ /\ turns[t].kind = "voice"
       /\ turns[t].early = "text"

\* C19: in a voice or text turn whose validation gate failed no external
\* provider (transcription, index, generation model, spreadsheet) has been
\* called, and the conversation state is Idle when the turn ends.
C19_GateShortCircuits ==
    \A t \in TurnIds :
        GateFailed(t) =>
            /\ turns[t].calls = <<>>
            /\ Finished(t) => turns[t].cleared

\* the number of calls of a service in a turn
RECURSIVE Count(_, _)
Count(calls, what) ==
    IF calls = <<>> THEN 0
    ELSE (IF Head(calls) = what THEN 1 ELSE 0) + Count(Tail(calls), what)

\* the calls of a turn without its log_error call
RECURSIVE PipelineCalls(_)
PipelineCalls(calls) ==
    IF calls = <<>> THEN <<>>
    ELSE IF Head(calls) = "log_error" THEN PipelineCalls(Tail(calls))
    ELSE <<Head(calls)>> \o PipelineCalls(Tail(calls))

\* the order of the external steps of a full turn
FullOrder(t) ==
    (IF turns[t].kind = "voice" THEN <<"transcribe">> ELSE <<>>)
        \o <<"search", "generate", "log_violation">>

IsPrefix(a, b) == Len(a) <= Len(b) /\ SubSeq(b, 1, Len(a)) = a

\* C21: in every turn the external steps come in the order Transcriber
\* (voice only), text validation, Chunk Retriever, Violation Analyzer,
\* logViolation, response, Idle: the response is sent only after
\* logViolation returned, the analyzer gets exactly the fragments of the
\* turn's retrieval, a text turn never calls the Transcriber, and after a
\* failed transcription or a failed text validation nothing more is called.
C21_StrictOrder ==
    \A t \in TurnIds :
        LET calls == PipelineCalls(turns[t].calls) IN
        /\ IsPrefix(calls, FullOrder(t))
        /\ HasSent(t, "result") => calls = FullOrder(t)
        /\ turns[t].analyzed # <<>> =>
            /\ turns[t].retrieved # <<>>
            /\ turns[t].analyzed[1].chunks = turns[t].retrieved[1].chunks
            /\ turns[t].analyzed[1].text = turns[t].retrieved[1].query
        /\ turns[t].kind = "text" => Count(calls, "transcribe") = 0
        /\ turns[t].early # "none" => calls = <<"transcribe">>
        /\ (turns[t].kind = "voice" /\ Count(calls, "search") > 0) =>
            /\ turns[t].early = "none"
            /\ Len(turns[t].text) >= 5
        /\ (HasSent(t, "result") /\ Finished(t)) => turns[t].cleared

\* a voice turn that went through every step and sent its response
C21_Witness ==
    \E t \in TurnIds :
        /\ turns[t].kind = "voice"
        /\ turns[t].pc = "done"
        /\ HasSent(t, "result")
        /\ turns[t].retrieved # <<>>
        /\ turns[t].retrieved[1].chunks # <<>>

\* the spreadsheet calls of a turn
SpreadsheetCalls(t) ==
    Count(turns[t].calls, "log_violation") + Count(turns[t].calls, "log_error")

\* the turn passed its validation gates
PassedValidation(t) ==
    /\ turns[t].kind \in {"voice", "text"}
    /\ ~GateFailed(t)
    /\ turns[t].early = "none"

C23_RemoteFailureLogged ==
    \A t \in TurnIds :
        (Finished(t) /\ \E i \in 1..Len(turns[t].failed) :
                            turns[t].failed[i] \in {"transcribe", "search", "generate"}) =>
            /\ turns[t].sent # <<>>
            /\ Count(turns[t].calls, "log_error") >= 1

C26_OneMessagePerActivation ==
    \A t1, t2 \in TurnIds :
        ( /\ t1 # t2
          /\ turns[t1].user = turns[t2].user
          /\ turns[t1].epoch = turns[t2].epoch
          /\ Count(turns[t1].calls, "search") > 0 )
        => Count(turns[t2].calls, "search") = 0

\* C28: a message is handled only when it is received in AwaitingInput (a
\* message received in Idle starts no turn and calls nothing), and only the
\* start command and the new-violation button, never a message or /help,
\* take a conversation from Idle to AwaitingInput.
C28_IdleStartsNothing ==
    [][ /\ \A t \in TurnIds :
            (turns[t].pc = "idle" /\ turns'[t].pc # "idle") =>
                fsm[turns'[t].user] = "AwaitingInput"
        /\ \A u \in Users :
            (fsm[u] = "Idle" /\ fsm'[u] # "Idle") =>
                /\ turns' = turns
                /\ activations'[u] = activations[u] + 1 ]_vars

\* a turn has ended, its user's conversation is Idle and a handler task is free
C28_Witness ==
    \E t1, t2 \in TurnIds :
        /\ turns[t1].pc = "done"
        /\ fsm[turns[t1].user] = "Idle"
        /\ turns[t2].pc = "idle"

\* ------------------------------------------------------ claims: analyzer
AnalyzeReturned == aiOut # <<>>
AnalyzeResult == aiOut[1].value
ProviderFailed == aiIn.outcome.kind # "text"

HasPlaceholders(r) ==
    /\ r.corrected_description = <<AnalysisErrorText>>
    /\ r.document_info = <<NoDocumentText>>
    /\ r.suggestions = <<RepeatText>>

HasErrorMessage(r) == r.error_message # None /\ r.error_message # <<>>

\* C4: analyze_violation never raises; when the provider call fails or the
\* completion has no text content the result has success = false, the three
\* fixed placeholder sentences and a non-empty error message; the provider
\* is invoked exactly once per call.
C4_AnalyzeNeverRaises ==
    AnalyzeReturned =>
        /\ ~aiOut[1].raised
        /\ aiOut[1].provider_calls = 1
        /\ ProviderFailed =>
            /\ ~AnalyzeResult.success
            /\ HasPlaceholders(AnalyzeResult)
            /\ HasErrorMessage(AnalyzeResult)

\* the provider raised an exception whose text is empty, and the call returned
C4_Witness ==
    /\ AnalyzeReturned
    /\ aiIn.outcome = ProviderRaises(<<>>)
    /\ aiIn.chunks # <<>>

\* C5: success = false only when the model invocation failed, and then the
\* three fields are the placeholders and error_message is set; whenever the
\* reply was parsed, for every reply (the empty one too) and every fragment
\* list, success = true and error_message is absent.
C5_SuccessIffParsed ==
    AnalyzeReturned =>
        /\ ~ProviderFailed =>
            AnalyzeResult.success /\ AnalyzeResult.error_message = None
        /\ ~AnalyzeResult.success =>
            /\ ProviderFailed
            /\ HasPlaceholders(AnalyzeResult)
            /\ AnalyzeResult.error_message # None

\* the empty reply was parsed with fragments present
C5_Witness ==
    /\ AnalyzeReturned
    /\ aiIn.outcome = ProviderText(<<>>)
    /\ aiIn.chunks # <<>>
    /\ AnalyzeResult.success

Labels == {LabelDescription, LabelDocument, LabelSuggestions}
NoLabels(s) == \A i \in 1..Len(s) : s[i] \notin Labels

\* C6 as stated: a reply with none of the three labels gives success = true
\* and a corrected description equal to the full raw reply.
C6_RawReplyKept ==
    (AnalyzeReturned /\ ~ProviderFailed /\ NoLabels(aiIn.outcome.content)) =>
        /\ AnalyzeResult.success
        /\ AnalyzeResult.corrected_description = aiIn.outcome.content

\* C6 amended: a reply with none of the three labels gives success = true and
\* a corrected description equal to the raw reply without its leading and
\* trailing whitespace.
C6_StrippedReplyKept ==
    (AnalyzeReturned /\ ~ProviderFailed /\ NoLabels(aiIn.outcome.content)) =>
        /\ AnalyzeResult.success
        /\ AnalyzeResult.corrected_description = Strip(aiIn.outcome.content)

\* a label-free reply with surrounding whitespace and a non-blank core
C6_Witness ==
    /\ AnalyzeReturned
    /\ ~ProviderFailed
    /\ NoLabels(aiIn.outcome.content)
    /\ Strip(aiIn.outcome.content) # <<>>
    /\ Strip(aiIn.outcome.content) # aiIn.outcome.content

\* the document section of the reply as the parser reads it
ParsedDocument == SectionBody(Strip(aiIn.outcome.content), LabelDocument, LabelSuggestions)

\* C7: in a successful result the document field is the parsed document
\* section when that is non-empty (fragments never overwrite it), the
\* "title, number, clause" of the first fragment when it is empty and
\* fragments exist, and empty when it is empty and there are no fragments.
C7_DocumentField ==
    (AnalyzeReturned /\ AnalyzeResult.success) =>
        /\ ParsedDocument # <<>> => AnalyzeResult.document_info = ParsedDocument
        /\ (ParsedDocument = <<>> /\ aiIn.chunks # <<>>) =>
            AnalyzeResult.document_info =
                aiIn.chunks[1].document_title \o <<",", SP>>
                    \o aiIn.chunks[1].document_number \o <<",", SP>>
                    \o aiIn.chunks[1].clause_number
        /\ (ParsedDocument = <<>> /\ aiIn.chunks = <<>>) =>
            AnalyzeResult.document_info = <<>>

\* a reply with a description but no document label, fragments present
C7_Witness ==
    /\ AnalyzeReturned
    /\ AnalyzeResult.success
    /\ \E i \in 1..Len(aiIn.outcome.content) : aiIn.outcome.content[i] = LabelDescription
    /\ \A i \in 1..Len(aiIn.outcome.content) : aiIn.outcome.content[i] # LabelDocument
    /\ Len(aiIn.chunks) = MaxAIChunks
    /\ AnalyzeResult.document_info = CitationOf(aiIn.chunks[1])

\* the reply as the parser receives it
Reply == Strip(aiIn.outcome.content)

\* the first occurrences of the three labels come in the order description,
\* document, suggestions
LabelsInOrder ==
    /\ FirstIndex(Reply, LabelDescription, 1) > 0
    /\ FirstIndex(Reply, LabelDocument, 1) > FirstIndex(Reply, LabelDescription, 1)
    /\ FirstIndex(Reply, LabelSuggestions, 1) > FirstIndex(Reply, LabelDocument, 1)

\* the trimmed text of the reply from position a to position b, without a
\* duplicated leading label
TextBetween(a, b, label) ==
    LET body == Strip(SubSeq(Reply, a, b)) IN
    IF body # <<>> /\ body[1] = label THEN Strip(Tail(body)) ELSE body

\* C20: for a reply with the three labels in order every non-empty section
\* is returned in full: the description is the trimmed text between its
\* label and the document label, the document the trimmed text between its
\* label and the suggestions label, the suggestions the trimmed text from
\* their label to the end of the reply; a duplicated leading label is removed.
C20_SectionsInFull ==
    (AnalyzeReturned /\ ~ProviderFailed /\ LabelsInOrder) =>
        LET i == FirstIndex(Reply, LabelDescription, 1)
            j == FirstIndex(Reply, LabelDocument, 1)
            k == FirstIndex(Reply, LabelSuggestions, 1)
            description == TextBetween(i + 1, j - 1, LabelDescription)
            document == TextBetween(j + 1, k - 1, LabelDocument)
            suggestions == TextBetween(k + 1, Len(Reply), LabelSuggestions)
        IN /\ description # <<>> => AnalyzeResult.corrected_description = description
           /\ document # <<>> => AnalyzeResult.document_info = document
           /\ suggestions # <<>> => AnalyzeResult.suggestions = suggestions

\* C27: a reply in exactly the format the prompt requests ('**Label:** body'
\* for each of the three labels) is parsed into the three bodies the model
\* wrote, without bold markers; the suggestions are not the fixed fallback.
C27_PromptFormatParsed ==
    AnalyzeReturned =>
        \A d \in SectionBodies, n \in SectionBodies, m \in SectionBodies :
            aiIn.outcome = ProviderText(PromptFormatReply(d, n, m)) =>
                /\ AnalyzeResult.corrected_description = d
                /\ AnalyzeResult.document_info = n
                /\ AnalyzeResult.suggestions = m
                /\ AnalyzeResult.suggestions # <<FurtherAnalysisText>>

RecordBuilt == Len(aiOut) = 2
Record == aiOut[2]

\* the document field was synthesized from the top fragment
CitationSynthesized ==
    /\ AnalyzeResult.success
    /\ ParsedDocument = <<>>
    /\ aiIn.chunks # <<>>

\* C30: when the document field is synthesized from the top fragment, the
\* controller's split recovers that fragment's title, number and clause
\* (commas inside them included); the three record fields are set only when
\* the analysis succeeded with a non-empty document field, and the record's
\* error is set exactly when the analysis was unsuccessful.
C30_CitationRoundTrip ==
    RecordBuilt =>
        /\ CitationSynthesized =>
            /\ Record.document_title = aiIn.chunks[1].document_title
            /\ Record.document_number = aiIn.chunks[1].document_number
            /\ Record.clause_number = aiIn.chunks[1].clause_number
        /\ ~(AnalyzeResult.success /\ AnalyzeResult.document_info # <<>>) =>
            /\ Record.document_title = None
            /\ Record.document_number = None
            /\ Record.clause_number = None
        /\ (Record.error # None) = ~AnalyzeResult.success

\* ------------------------------------------------ claims: row formatting
FormatChunksReturned == fmtSlots # <<>>
Slots == fmtSlots[1]
LoggedChunks == fmtIn.violation.chunks

\* the part of a rendered slot after its "Text: " marker
SlotText(slot) ==
    LET k == FirstIndex(slot, "\nText: ", 1) IN SubSeq(slot, k + 1, Len(slot))

\* C8: for every fragment list of length n >= 0 _format_chunks returns
\* exactly 3 slots; slot i <= min(n, 3) renders the i-th fragment of the
\* input (its number i, its title), the remaining slots are empty strings
\* and fragments from the 4th on are dropped.
C8_ThreeSlots ==
    FormatChunksReturned =>
        /\ Len(Slots) = 3
        /\ \A i \in 1..3 :
            IF i <= Len(LoggedChunks)
            THEN /\ Len(Slots[i]) >= 3
                 /\ Slots[i][2] = ToString(i)
                 /\ SubSeq(Slots[i], 4, 3 + Len(Get(LoggedChunks[i], "document_title", <<>>)))
                        = Get(LoggedChunks[i], "document_title", <<>>)
            ELSE Slots[i] = <<>>

\* more fragments than slots, with distinct fragments in the first places
C8_Witness ==
    /\ FormatChunksReturned
    /\ Len(LoggedChunks) > 3
    /\ LoggedChunks[1] # LoggedChunks[2]
    /\ LoggedChunks[4] # LoggedChunks[3]

\* C9: a logged fragment's text is rendered unchanged when it has at most
\* 200 characters, as its first 200 characters followed by "..." when it
\* has more, and as the empty text when the fragment has no text field.
C9_Truncation ==
    FormatChunksReturned =>
        \A i \in 1..Min(Len(LoggedChunks), 3) :
            LET rendered == SlotText(Slots[i]) IN
            IF "clause_text" \notin DOMAIN LoggedChunks[i] THEN rendered = <<>>
            ELSE LET text == LoggedChunks[i].clause_text IN
                 IF Len(text) <= 200 THEN rendered = text
                 ELSE /\ Len(rendered) = 201
                      /\ SubSeq(rendered, 1, 200) = SubSeq(text, 1, 200)
                      /\ rendered[201] = "..."

\* one logged list with a text over the limit, one of exactly the limit and
\* a fragment without a text field
C9_Witness ==
    /\ FormatChunksReturned
    /\ \E i, j, k \in 1..Min(Len(LoggedChunks), 3) :
        /\ "clause_text" \in DOMAIN LoggedChunks[i]
        /\ Len(LoggedChunks[i].clause_text) > 200
        /\ "clause_text" \in DOMAIN LoggedChunks[j]
        /\ Len(LoggedChunks[j].clause_text) = 200
        /\ "clause_text" \notin DOMAIN LoggedChunks[k]

FormatRowReturned == fmtRow # <<>>
Row == fmtRow[1]

\* the rendered fragments of the record, at most three, joined by the separator
FragmentBlock ==
    JoinParts([i \in 1..Min(Len(LoggedChunks), 3) |-> RenderChunk(i, LoggedChunks[i])],
              <<ChunkSeparator>>)

Col(k) == Row[k + 1]

RecordError == IF fmtIn.violation.error = None THEN <<>> ELSE fmtIn.violation.error

LoggerReturned == logLast # <<>>
LastCall == logLast[1]

\* C10: log_violation, log_error and test_connection never raise; each
\* returns true exactly when every step (authorize, open, worksheet, append
\* or read) succeeded and false when one failed; a false result appended no
\* row, a true log_violation or log_error appended exactly one, and
\* test_connection appends none.
C10_LoggerNeverRaises ==
    LoggerReturned =>
        /\ ~LastCall.raised
        /\ LastCall.ret = (LastCall.fail = "none")
        /\ ~LastCall.ret => logger_service.sheet = LastCall.before
        /\ LastCall.op = "test_connection" => logger_service.sheet = LastCall.before
        /\ (LastCall.ret /\ LastCall.op # "test_connection") =>
            /\ Len(logger_service.sheet) = Len(LastCall.before) + 1
            /\ SubSeq(logger_service.sheet, 1, Len(LastCall.before)) = LastCall.before

\* a log_violation whose append failed, after an earlier call wrote a row
C10_Witness ==
    /\ LoggerReturned
    /\ LastCall.op = "log_violation"
    /\ LastCall.fail = "append"
    /\ ~LastCall.ret
    /\ Len(logger_service.sheet) = 1

\* log_error returned true: the row it appended
ErrorLogged == LoggerReturned /\ LastCall.op = "log_error" /\ LastCall.ret
ErrorRowWritten == logger_service.sheet[Len(logger_service.sheet)]

Blanks(n) == [i \in 1..n |-> <<>>]

\* C13 as stated: the row has exactly 9 columns laid out as timestamp, actor
\* description, four blank placeholders, three blank fragment placeholders,
\* error message; the actor description names the user whenever a user
\* identifier was passed.
C13_ErrorRowAsStated ==
    ErrorLogged =>
        /\ Len(ErrorRowWritten) = 9
        /\ ErrorRowWritten =
              << FormatTimestamp(LastCall.now),
                 IF LastCall.user_id # NoUser
                 THEN <<UserErrorPrefix, ToString(LastCall.user_id)>>
                 ELSE <<SystemErrorText>> >>
              \o Blanks(4) \o Blanks(3) \o <<LastCall.error_message>>

\* C13 amended: the row has exactly 9 columns laid out as timestamp, actor
\* description, three blank placeholders, three blank fragment placeholders,
\* error message; the actor description names the user when a non-zero
\* identifier was passed and is the system-error text when none or 0 was.
C13_ErrorRowLayout ==
    ErrorLogged =>
        /\ Len(ErrorRowWritten) = 9
        /\ ErrorRowWritten =
              << FormatTimestamp(LastCall.now),
                 IF LastCall.user_id # NoUser /\ LastCall.user_id # 0
                 THEN <<UserErrorPrefix, ToString(LastCall.user_id)>>
                 ELSE <<SystemErrorText>> >>
              \o Blanks(3) \o Blanks(3) \o <<LastCall.error_message>>

\* an error row for the identifier 0, appended after another row
C13_Witness ==
    /\ ErrorLogged
    /\ LastCall.user_id = 0
    /\ Len(logger_service.sheet) = 2

\* C25: across any sequence of logger operations the client manager is
\* created on the first _get_client call and only then, later calls keep
\* that manager, and every call performs one authorization.
C25_LazySingleManager ==
    [][ /\ logger_service.client = "None" =>
            /\ logger_service.managers = 0
            /\ logger_service'.managers = 1
        /\ logger_service.client # "None" =>
            /\ logger_service'.managers = logger_service.managers
            /\ logger_service'.client = logger_service.client
        /\ logger_service'.client # "None"
        /\ logger_service'.authorizations = logger_service.authorizations + 1 ]_vars

\* the manager was created once and served every call up to the bound
C25_Witness ==
    /\ logger_service.authorizations = MaxLogOps
    /\ logger_service.managers = 1
    /\ LoggerReturned
    /\ LastCall.op = "test_connection"

\* ----------------------------------------------------- claims: retriever
SearchReturned == ragOut # <<>>
Found == ragOut[1].value
Results == ragIn.results

IndexFailed == Results.kind = "raise"

\* some result of the index has no metadata or no document text
SomeEntryAbsent ==
    \E i \in 1..Len(Results.ids) :
        Results.metadatas[i].none \/ Results.documents[i] = None

\* C14: search_relevant_chunks never raises; it returns the empty sequence
\* when the index query fails, when building a fragment from a result fails
\* and when the index returns no results.
C14_SearchFailsSoft ==
    SearchReturned =>
        /\ ~ragOut[1].raised
        /\ (IndexFailed \/ SomeEntryAbsent \/ Results.ids = <<>>) => Found = <<>>

\* the index returned a full result set whose last entry cannot be built
C14_Witness ==
    /\ SearchReturned
    /\ ~IndexFailed
    /\ Len(Results.ids) = MaxResults
    /\ ~Results.metadatas[1].none
    /\ Results.documents[1] # None
    /\ Results.metadatas[MaxResults].none

\* C15: for every result set the index returns (each entry with its
\* document text), one fragment per identifier is returned, in the index's
\* order; an entry whose metadata lacks fields, or that has no metadata at
\* all, is included with the missing fields empty and drops no other entry.
C15_OneFragmentPerResult ==
    (SearchReturned /\ ~IndexFailed
        /\ \A i \in 1..Len(Results.ids) : Results.documents[i] # None) =>
        /\ Len(Found) = Len(Results.ids)
        /\ \A i \in 1..Len(Results.ids) :
            /\ Found[i].document_id = Results.ids[i]
            /\ Found[i].document_title = Get(Results.metadatas[i].dict, "document_title", <<>>)
            /\ Found[i].document_number = Get(Results.metadatas[i].dict, "document_number", <<>>)
            /\ Found[i].clause_number = Get(Results.metadatas[i].dict, "clause_number", <<>>)

\* C16: every returned fragment has a score in [0, 1] (0..1000 thousandths)
\* equal to 1 minus the distance the index reported for it.
C16_ScoreInUnitInterval ==
    SearchReturned =>
        \A i \in 1..Len(Found) :
            /\ Found[i].relevance_score = 1000 - Results.distances[i]
            /\ Found[i].relevance_score >= 0
            /\ Found[i].relevance_score <= 1000

\* ---------------------------------------------------- claims: transcriber
VoiceReturned == vpOut # <<>>
VoiceResult == vpOut[1]

Blank(text) == \A i \in 1..Len(text) : text[i] = SP

\* C17: process_voice_message never raises and returns one of two shapes:
\* success with a non-empty trimmed text and no error, or failure with no
\* text and a non-empty error; a failed download, a failed transcription
\* and an empty or whitespace-only transcription all give failure.
C17_VoiceResultShapes ==
    VoiceReturned =>
        /\ ~VoiceResult.raised
        /\ \/ /\ VoiceResult.success
              /\ VoiceResult.text # None
              /\ VoiceResult.text # <<>>
              /\ VoiceResult.text = Strip(VoiceResult.text)
              /\ VoiceResult.error = None
           \/ /\ ~VoiceResult.success
              /\ VoiceResult.text = None
              /\ VoiceResult.error # None
              /\ VoiceResult.error # <<>>
        /\ ( \/ ~vpIn.download_ok
             \/ vpIn.transcription.kind = "raise"
             \/ Blank(vpIn.transcription.text) ) => ~VoiceResult.success

\* the file was downloaded and the provider returned only whitespace
C17_Witness ==
    /\ VoiceReturned
    /\ vpIn.download_ok
    /\ vpIn.unlink_ok
    /\ vpIn.transcription.kind = "text"
    /\ Len(vpIn.transcription.text) = MaxTranscriptLen
    /\ Blank(vpIn.transcription.text)

\* C29: every temporary file created by process_voice_message has been
\* deleted when the call returns, on every path.
C29_TempFilesDeleted ==
    VoiceReturned => VoiceResult.deleted = VoiceResult.created

====
